---- MODULE Spec2Model ----
(***************************************************************************)
(* Model of crun's `exec` command (src/src/exec.c): the option collector   *)
(* parse_opt driven by argp_parse, the user-spec parser                    *)
(* make_oci_process_user, the capability fan-out, the preserve-fd          *)
(* accounting and the hand-over to the exec engine in crun_command_exec.   *)
(*                                                                         *)
(* C strings are sequences of one-lexeme strings, <<"3", ":", "9">>.  A    *)
(* pointer is a sequence of length at most one: <<>> is NULL, <<x>> points *)
(* to x.  Heap blocks (malloc/realloc/strdup) are cells of `heap`, named   *)
(* by their index; address 0 is NULL.                                      *)
(***************************************************************************)
EXTENDS Integers, Sequences, FiniteSets, TLC

VARIABLES
  argv,           \* the argument vector handed to crun_command_exec (argv[0] = "exec")
  listen_fds,     \* getenv ("LISTEN_FDS"): NULL or a string
  state_next,     \* argp's state->next: C index of the next argv slot to read
  exec_options,   \* the file-scoped `struct exec_options_s exec_options`
  heap,           \* the blocks handed out by xmalloc / realloc / xstrdup
  first_arg,      \* the index argp_parse stores through &first_arg
  crun_context,   \* the local `libcrun_context_t crun_context`
  process,        \* the local `oci_container_process *process`
  calls,          \* the calls made to the exec engine, in order
  ret,            \* the value crun_command_exec returns
  err,            \* the fatal error the invocation died of, "" while there is none
  pc              \* the position of the invocation in crun_command_exec

vars == <<argv, listen_fds, state_next, exec_options, heap, first_arg,
          crun_context, process, calls, ret, err, pc>>

(***************************************************************************)
(* Bounds.  TLC's integers are 32 bits wide, so the C types are scaled:    *)
(* WordBits stands for the width of int, uid_t and gid_t (32 in the build),*)
(* LongBits for that of long, unsigned long and long long (64).            *)
(***************************************************************************)
WordBits == 8
LongBits == 10
MaxUserLen == 5
MaxArgs == 4
MaxEnvArgs == 5
MaxCapArgs == 5
MaxUserArgs == 2
MaxOptionArgs == 3

Pow2(n) == 2 ^ n
INT_MAX == Pow2(WordBits - 1) - 1
INT_MIN == - Pow2(WordBits - 1)
UID_MAX == Pow2(WordBits) - 1
LONG_MAX == Pow2(LongBits - 1) - 1
LONG_MIN == - Pow2(LongBits - 1)
ULONG_MAX == Pow2(LongBits) - 1

\* Conversion of an integer value to int (two's complement wrap).
ToInt(v) == ((v - INT_MIN) % Pow2(WordBits)) + INT_MIN
\* Conversion of a long to uid_t / gid_t (unsigned wrap).
ToUid(v) == v % Pow2(WordBits)

NULL == <<>>
Ptr(x) == <<x>>
Deref(p) == p[1]

SeqsUpTo(S, n) == UNION {[1..k -> S] : k \in 0..n}

----------------------------------------------------------------------------
(* strtol / strtoul / strtoll, base 10 *)

Digits == {"0", "1", "2", "3", "4", "5", "6", "7", "8", "9"}
DigitVal(c) ==
  CASE c = "0" -> 0 [] c = "1" -> 1 [] c = "2" -> 2 [] c = "3" -> 3 [] c = "4" -> 4
    [] c = "5" -> 5 [] c = "6" -> 6 [] c = "7" -> 7 [] c = "8" -> 8 [] c = "9" -> 9
IsSpace(c) == c = " "

\* Number of leading white-space characters of s from C index i on.
RECURSIVE SkipSpace(_, _)
SkipSpace(s, i) ==
  IF i < Len(s) /\ IsSpace(s[i + 1]) THEN SkipSpace(s, i + 1) ELSE i

\* C index of the first non-digit of s from C index i on.
RECURSIVE DigitsEnd(_, _)
DigitsEnd(s, i) ==
  IF i < Len(s) /\ s[i + 1] \in Digits THEN DigitsEnd(s, i + 1) ELSE i

\* Magnitude of the digits s[i..j-1] (C indices), saturating above ULONG_MAX.
RECURSIVE Magnitude(_, _, _, _)
Magnitude(s, i, j, acc) ==
  IF i >= j THEN acc
  ELSE LET v == acc * 10 + DigitVal(s[i + 1])
       IN  Magnitude(s, i + 1, j, IF v > ULONG_MAX THEN ULONG_MAX + 1 ELSE v)

\* The scan all three functions share: white space, an optional sign, digits.
\* end is the C index *endptr points at; with no digit at all it is 0.
Scan(s) ==
  LET b == SkipSpace(s, 0)
      signed == b < Len(s) /\ s[b + 1] \in {"+", "-"}
      d == IF signed THEN b + 1 ELSE b
      e == DigitsEnd(s, d)
  IN  [neg |-> signed /\ s[b + 1] = "-",
       any |-> e > d,
       mag |-> Magnitude(s, d, e, 0),
       end |-> IF e > d THEN e ELSE 0]

strtol(s) ==
  LET sc == Scan(s)
  IN  IF ~sc.any THEN [val |-> 0, end |-> 0, erange |-> FALSE]
      ELSE IF ~sc.neg /\ sc.mag > LONG_MAX
             THEN [val |-> LONG_MAX, end |-> sc.end, erange |-> TRUE]
      ELSE IF sc.neg /\ sc.mag > LONG_MAX + 1
             THEN [val |-> LONG_MIN, end |-> sc.end, erange |-> TRUE]
      ELSE [val |-> IF sc.neg THEN - sc.mag ELSE sc.mag, end |-> sc.end, erange |-> FALSE]

strtoll(s) == strtol(s)

strtoul(s) ==
  LET sc == Scan(s)
  IN  IF ~sc.any THEN [val |-> 0, end |-> 0, erange |-> FALSE]
      ELSE IF sc.mag > ULONG_MAX
             THEN [val |-> ULONG_MAX, end |-> sc.end, erange |-> TRUE]
      ELSE [val |-> IF sc.neg THEN (ULONG_MAX + 1 - sc.mag) % (ULONG_MAX + 1) ELSE sc.mag,
            end |-> sc.end, erange |-> FALSE]

\* The string a char* points at after skipping its first i characters.
StrFrom(s, i) == SubSeq(s, i + 1, Len(s))
\* *p for a char* p into s at C index i: the character, or "\0" at the end.
CharAt(s, i) == IF i < Len(s) THEN s[i + 1] ELSE "\\0"

----------------------------------------------------------------------------
(* make_oci_process_user *)

UserOk(uid, gid) == [kind |-> "user", error |-> "", uid |-> uid, gid |-> gid]
UserNull == [kind |-> "null", error |-> "", uid |-> 0, gid |-> 0]
UserFail(e) == [kind |-> "fail", error |-> e, uid |-> 0, gid |-> 0]

\* Mutant: the GID is parsed from endptr, the ':' itself, not from endptr + 1.
make_oci_process_user_gid_at_colon(spec) ==
  IF spec = NULL THEN UserNull
  ELSE
    LET s == Deref(spec)
        u == strtol(s)
        rest == StrFrom(s, u.end)
        g == strtol(rest)
    IN  IF u.erange THEN UserFail("InvalidUid")
        ELSE IF CharAt(s, u.end) = "\\0" THEN UserOk(ToUid(u.val), 0)
        ELSE IF CharAt(s, u.end) # ":" THEN UserFail("InvalidUserspec")
        ELSE IF g.erange THEN UserFail("InvalidGid")
        ELSE IF CharAt(rest, g.end) # "\\0" THEN UserFail("InvalidUserspec")
        ELSE UserOk(ToUid(u.val), ToUid(g.val))

make_oci_process_user(spec) ==
  IF spec = NULL THEN UserNull
  ELSE
    LET s == Deref(spec)
        u == strtol(s)
        rest == StrFrom(s, u.end + 1)
        g == strtol(rest)
    IN  IF u.erange THEN UserFail("InvalidUid")
        ELSE IF CharAt(s, u.end) = "\\0" THEN UserOk(ToUid(u.val), 0)
        ELSE IF CharAt(s, u.end) # ":" THEN UserFail("InvalidUserspec")
        ELSE IF g.erange THEN UserFail("InvalidGid")
        ELSE IF CharAt(rest, g.end) # "\\0" THEN UserFail("InvalidUserspec")
        ELSE UserOk(ToUid(u.val), ToUid(g.val))

----------------------------------------------------------------------------
(* The heap: xmalloc, realloc, xstrdup, dup_array *)

StrCell(s) == [kind |-> "str", chars |-> s, ptrs |-> <<>>]
ArrCell(ps) == [kind |-> "arr", chars |-> <<>>, ptrs |-> ps]
\* A slot of a char** block: a pointer value, set or not.
Slot(a) == [set |-> TRUE, addr |-> a]
NoSlot == [set |-> FALSE, addr |-> 0]

\* xstrdup (str): NULL for NULL, else a fresh block holding a copy.
xstrdup(h, str) ==
  IF str = NULL THEN [h |-> h, p |-> 0]
  ELSE [h |-> Append(h, StrCell(Deref(str))), p |-> Len(h) + 1]

\* xmalloc of n pointer slots, none of them written.
xmalloc_slots(h, n) ==
  [h |-> Append(h, ArrCell([i \in 1..n |-> NoSlot])), p |-> Len(h) + 1]

\* realloc (p, n slots): the block keeps its slots and gains unwritten ones;
\* realloc (NULL, n) is malloc.  The resized block keeps its name.
realloc_slots(h, p, n) ==
  IF p = 0 THEN xmalloc_slots(h, n)
  ELSE [h |-> [h EXCEPT ![p] = ArrCell([i \in 1..n |->
                  IF i <= Len(h[p].ptrs) THEN h[p].ptrs[i] ELSE NoSlot])],
        p |-> p]

\* arr[i] = v for block arr and C index i.
Store(h, arr, i, v) == [h EXCEPT ![arr].ptrs[i + 1] = Slot(v)]

\* The char* at h[a], as a pointer to its string.
StrAt(h, a) == IF a = 0 THEN NULL ELSE Ptr(h[a].chars)

\* The strings a NULL-terminated char** block holds, up to its first NULL.
RECURSIVE Strings(_, _, _)
Strings(h, arr, i) ==
  IF arr = 0 \/ i >= Len(h[arr].ptrs) THEN <<>>
  ELSE LET sl == h[arr].ptrs[i + 1]
       IN  IF ~sl.set \/ sl.addr = 0 THEN <<>>
           ELSE <<h[sl.addr].chars>> \o Strings(h, arr, i + 1)

\* dup_array's loop: ret[i] = xstrdup (arr[i]) for i = from .. len-1.
RECURSIVE dup_loop(_, _, _, _, _)
dup_loop(h, arr, r, i, len) ==
  IF i >= len THEN h
  ELSE LET d == xstrdup(h, StrAt(h, h[arr].ptrs[i + 1].addr))
       IN  dup_loop(Store(d.h, r, i, d.p), arr, r, i + 1, len)

\* Mutant: the list is shared, not copied.
dup_array_shared(h, arr, len) == [h |-> h, p |-> arr]

dup_array(h, arr, len) ==
  LET m == xmalloc_slots(h, len + 1)
      filled == dup_loop(m.h, arr, m.p, 0, len)
  IN  [h |-> Store(filled, m.p, len, 0), p |-> m.p]

----------------------------------------------------------------------------
(* The options table and getopt's view of one argv element *)

\* options[]: the long name of each option, its key, and whether the table
\* gives it an argument ("yes"), an optional one ("optional") or none ("no").
options ==
  { [name |-> "--console-socket", key |-> "OPTION_CONSOLE_SOCKET", arg |-> "yes"],
    [name |-> "--tty",            key |-> "t",                     arg |-> "optional"],
    [name |-> "--process",        key |-> "p",                     arg |-> "yes"],
    [name |-> "--cwd",            key |-> "OPTION_CWD",            arg |-> "yes"],
    [name |-> "--detach",         key |-> "d",                     arg |-> "no"],
    [name |-> "--user",           key |-> "u",                     arg |-> "yes"],
    [name |-> "--env",            key |-> "e",                     arg |-> "yes"],
    [name |-> "--cap",            key |-> "c",                     arg |-> "yes"],
    [name |-> "--pid-file",       key |-> "OPTION_PID_FILE",       arg |-> "yes"],
    [name |-> "--preserve-fds",   key |-> "OPTION_PRESERVE_FDS",   arg |-> "no"] }

\* An argv element is written --name=value (first lexeme "--name=") for an
\* option with a value and --name for one without.
HasValue(text) ==
  Len(text) >= 1 /\ \E o \in options :
     o.arg \in {"yes", "optional"} /\ text[1] = o.name \o "="
OptionOf(text) ==
  { o \in options :
      \/ o.arg \in {"yes", "optional"} /\ Len(text) >= 1 /\ text[1] = o.name \o "="
      \/ o.arg \in {"no", "optional"} /\ text = <<o.name>> }
IsOption(text) == OptionOf(text) # {}
KeyOf(text) == (CHOOSE o \in OptionOf(text) : TRUE).key
\* optarg: the value after "=", or NULL for an option written without one.
ArgOf(text) == IF HasValue(text) THEN Ptr(Tail(text)) ELSE NULL

----------------------------------------------------------------------------
(* parse_opt and its helpers *)

argc == Len(argv)
\* argv[i] for a C index i: argv[argc] is the terminating NULL.
Argv(i) == IF i < argc THEN Ptr(argv[i + 1]) ELSE NULL

\* strcmp (a, b) != 0 for strings a and b.
StrDiffers(a, b) == a # b

\* Mutant: an assignment already in the list is not appended again.
append_env_dedup(o, h, arg) ==
  IF \E i \in 1..o.env_size : StrAt(h, h[o.env].ptrs[i].addr) = arg
    THEN [opts |-> o, heap |-> h]
    ELSE LET r == realloc_slots(h, o.env, o.env_size + 2)
             h1 == Store(r.h, r.p, o.env_size + 1, 0)
             d == xstrdup(h1, arg)
         IN  [opts |-> [o EXCEPT !.env = r.p, !.env_size = o.env_size + 1],
              heap |-> Store(d.h, r.p, o.env_size, d.p)]

\* append_env (arg) on the options record o and heap h.
append_env(o, h, arg) ==
  LET r == realloc_slots(h, o.env, o.env_size + 2)
      h1 == Store(r.h, r.p, o.env_size + 1, 0)
      d == xstrdup(h1, arg)
  IN  [opts |-> [o EXCEPT !.env = r.p, !.env_size = o.env_size + 1],
       heap |-> Store(d.h, r.p, o.env_size, d.p)]

\* append_cap (arg) on the options record o and heap h.
append_cap(o, h, arg) ==
  LET r == realloc_slots(h, o.cap, o.cap_size + 2)
      h1 == Store(r.h, r.p, o.cap_size + 1, 0)
      d == xstrdup(h1, arg)
  IN  [opts |-> [o EXCEPT !.cap = r.p, !.cap_size = o.cap_size + 1],
       heap |-> Store(d.h, r.p, o.cap_size, d.p)]

\* argp_mandatory_argument (arg, state): arg when the option came with one,
\* else the next argv slot, which it consumes.
argp_mandatory_argument(arg, next) ==
  IF arg # NULL THEN [arg |-> arg, next |-> next]
  ELSE [arg |-> Argv(next), next |-> next + 1]

\* What one call of parse_opt leaves: the options record, the heap, argp's
\* state->next, the fatal error it died of ("" for none) and whether it
\* returned ARGP_ERR_UNKNOWN.
Parsed(o, h, n, e, u) == [opts |-> o, heap |-> h, next |-> n, err |-> e, unknown |-> u]

\* case OPTION_PRESERVE_FDS: strtoul of the mandatory argument, stored in an
\* int.  strtoul (NULL) dereferences a null pointer: the run dies of it.
parse_preserve_fds(arg, o, h, n) ==
  LET a == argp_mandatory_argument(arg, n)
  IN  IF a.arg = NULL THEN Parsed(o, h, a.next, "Segfault", FALSE)
      ELSE Parsed([o EXCEPT !.preserve_fds = ToInt(strtoul(Deref(a.arg)).val)],
                  h, a.next, "", FALSE)

\* Mutant: the error is only reported, and the case falls through to default.
parse_no_args_falls_through(o, h, n) == Parsed(o, h, n, "", TRUE)

\* case ARGP_KEY_NO_ARGS: libcrun_fail_with_error ends the run.
parse_no_args(o, h, n) == Parsed(o, h, n, "MissingContainerId", FALSE)

parse_opt(key, arg, o, h, n) ==
  CASE key = "OPTION_CONSOLE_SOCKET" ->
         Parsed([o EXCEPT !.console_socket = arg], h, n, "", FALSE)
    [] key = "OPTION_PID_FILE" ->
         Parsed([o EXCEPT !.pid_file = arg], h, n, "", FALSE)
    [] key = "OPTION_PRESERVE_FDS" -> parse_preserve_fds(arg, o, h, n)
    [] key = "d" -> Parsed([o EXCEPT !.detach = TRUE], h, n, "", FALSE)
    [] key = "p" -> Parsed([o EXCEPT !.process = arg], h, n, "", FALSE)
    [] key = "t" ->
         Parsed([o EXCEPT !.tty = \/ arg = NULL
                                  \/ /\ StrDiffers(Deref(arg), <<"f", "a", "l", "s", "e">>)
                                     /\ StrDiffers(Deref(arg), <<"n", "o">>)],
                h, n, "", FALSE)
    [] key = "u" -> Parsed([o EXCEPT !.user = arg], h, n, "", FALSE)
    [] key = "e" -> LET r == append_env(o, h, arg) IN Parsed(r.opts, r.heap, n, "", FALSE)
    [] key = "c" -> LET r == append_cap(o, h, arg) IN Parsed(r.opts, r.heap, n, "", FALSE)
    [] key = "OPTION_CWD" ->
         LET d == xstrdup(h, arg) IN Parsed([o EXCEPT !.cwd = d.p], d.h, n, "", FALSE)
    [] key = "ARGP_KEY_NO_ARGS" -> parse_no_args(o, h, n)
    [] OTHER -> Parsed(o, h, n, "", TRUE)

----------------------------------------------------------------------------
(* argp_parse (&run_argp, argc, argv, ARGP_IN_ORDER, &first_arg, ...) *)

\* argp hands the next argv element, an option, to parse_opt.
ArgpOption ==
  /\ pc = "argp_parse"
  /\ state_next < argc
  /\ IsOption(argv[state_next + 1])
  /\ LET text == argv[state_next + 1]
         r == parse_opt(KeyOf(text), ArgOf(text), exec_options, heap, state_next + 1)
     IN  /\ exec_options' = r.opts
         /\ heap' = r.heap
         /\ state_next' = r.next
         /\ err' = r.err
         /\ pc' = IF r.err = "" THEN "argp_parse" ELSE "exit"
  /\ UNCHANGED <<argv, listen_fds, first_arg, crun_context, process, calls, ret>>

\* In order: the first element that is no option is offered as ARGP_KEY_ARG,
\* parse_opt does not know the key, and argp_parse returns its index.
ArgpArg ==
  /\ pc = "argp_parse"
  /\ state_next < argc
  /\ ~IsOption(argv[state_next + 1])
  /\ LET r == parse_opt("ARGP_KEY_ARG", Argv(state_next), exec_options, heap, state_next)
     IN  /\ r.unknown
         /\ first_arg' = state_next
         /\ pc' = "assert_n_args"
  /\ UNCHANGED <<argv, listen_fds, state_next, exec_options, heap, crun_context,
                 process, calls, ret, err>>

\* Every element was an option: argp calls parse_opt with ARGP_KEY_NO_ARGS.
ArgpNoArgs ==
  /\ pc = "argp_parse"
  /\ state_next >= argc
  /\ LET r == parse_opt("ARGP_KEY_NO_ARGS", NULL, exec_options, heap, state_next)
     IN  /\ err' = r.err
         /\ pc' = IF r.err = "" THEN "assert_n_args" ELSE "exit"
         /\ first_arg' = IF r.err = "" THEN state_next ELSE first_arg
  /\ UNCHANGED <<argv, listen_fds, state_next, exec_options, heap, crun_context,
                 process, calls, ret>>

----------------------------------------------------------------------------
(* crun_command_exec *)

\* crun_assert_n_args (n, min, max): a bound below zero is no bound.
crun_assert_n_args(n, min, max) ==
  IF min >= 0 /\ n < min THEN "ArgumentCountError"
  ELSE IF max >= 0 /\ n > max THEN "ArgumentCountError"
  ELSE ""

\* Mutant: two positionals are asked for in file mode too.
MinArgs_always_two(o) == 2

\* The least number of positional arguments line 209 asks for.
MinArgs(o) == IF o.process # NULL THEN 1 ELSE 2

\* Line 209.
AssertNArgs ==
  /\ pc = "assert_n_args"
  /\ LET e == crun_assert_n_args(argc - first_arg, MinArgs(exec_options), -1)
     IN  /\ err' = e
         /\ pc' = IF e = "" THEN "init_context" ELSE "exit"
  /\ UNCHANGED <<argv, listen_fds, state_next, exec_options, heap, first_arg,
                 crun_context, process, calls, ret>>

\* Lines 211-213: init_libcrun_context records the container id; it may fail,
\* and crun_command_exec then returns its result.
InitRets == {0, -1}
InitContext ==
  /\ pc = "init_context"
  /\ \E r \in InitRets :
       /\ ret' = r
       /\ crun_context' = [crun_context EXCEPT !.id = Argv(first_arg)]
       /\ pc' = IF r < 0 THEN "returned" ELSE "set_context"
  /\ UNCHANGED <<argv, listen_fds, state_next, exec_options, heap, first_arg,
                 process, calls, err>>

\* Lines 220-221: preserve_fds += strtoll (getenv ("LISTEN_FDS"), NULL, 10).
\* The sum is a long long stored in an int; a sum outside long long is a
\* signed overflow, after which the int may hold anything.
add_listen_fds(fds, env) ==
  IF env = NULL THEN {fds}
  ELSE LET sum == fds + strtoll(Deref(env)).val
       IN  IF sum < LONG_MIN \/ sum > LONG_MAX THEN INT_MIN..INT_MAX
           ELSE {ToInt(sum)}

\* Lines 215-221.
SetContext ==
  /\ pc = "set_context"
  /\ \E fds \in add_listen_fds(exec_options.preserve_fds, listen_fds) :
       crun_context' = [crun_context EXCEPT
                          !.detach = exec_options.detach,
                          !.console_socket = exec_options.console_socket,
                          !.pid_file = exec_options.pid_file,
                          !.preserve_fds = fds]
  /\ pc' = IF exec_options.process # NULL THEN "exec_process_file" ELSE "build_process"
  /\ UNCHANGED <<argv, listen_fds, state_next, exec_options, heap, first_arg,
                 process, calls, ret, err>>

EngineRets == {0, -1}

\* Lines 223-224.
ExecProcessFile ==
  /\ pc = "exec_process_file"
  /\ calls' = Append(calls, [fn |-> "libcrun_container_exec_process_file",
                             context |-> crun_context,
                             id |-> Argv(first_arg),
                             file |-> exec_options.process,
                             process |-> NULL])
  /\ \E r \in EngineRets : ret' = r
  /\ pc' = "returned"
  /\ UNCHANGED <<argv, listen_fds, state_next, exec_options, heap, first_arg,
                 crun_context, process, err>>

\* Lines 233-236: the args block and the loop that fills it.
RECURSIVE args_loop(_, _, _, _)
args_loop(h, args, i, n) ==
  IF i >= n THEN h
  ELSE LET d == xstrdup(h, Argv(first_arg + i + 1))
       IN  args_loop(Store(d.h, args, i, d.p), args, i + 1, n)

\* Line 232.
args_len_of(ac, fa) == ac

make_args(h) ==
  LET m == xmalloc_slots(h, argc + 1)
      n == argc - first_arg
  IN  [h |-> Store(args_loop(m.h, m.p, 0, n), m.p, n, 0), p |-> m.p]

\* Line 247.
effective_of(h, cap, len) == [h |-> h, p |-> cap]

\* Lines 245-260.
make_capabilities(h, o) ==
  LET e == effective_of(h, o.cap, o.cap_size)
      i == dup_array(e.h, o.cap, o.cap_size)
      b == dup_array(i.h, o.cap, o.cap_size)
      a == dup_array(b.h, o.cap, o.cap_size)
      p == dup_array(a.h, o.cap, o.cap_size)
  IN  [caps |-> [effective |-> e.p, effective_len |-> o.cap_size,
                 inheritable |-> i.p, inheritable_len |-> o.cap_size,
                 bounding |-> b.p, bounding_len |-> o.cap_size,
                 ambient |-> a.p, ambient_len |-> o.cap_size,
                 permitted |-> p.p, permitted_len |-> o.cap_size],
       h |-> p.h]

\* memset (process, 0, sizeof (*process)).
ZeroProcess ==
  [args |-> 0, args_len |-> 0, cwd |-> 0, terminal |-> FALSE, env |-> 0, env_len |-> 0,
   user |-> NULL, capabilities |-> NULL, no_new_privileges |-> FALSE]

\* Lines 240-241.
env_of(o) == [env |-> o.env, env_len |-> o.env_size]

\* Lines 227-264.  make_oci_process_user ends the run on a bad user spec,
\* before the capabilities are looked at.
BuildProcess ==
  /\ pc = "build_process"
  /\ LET o == exec_options
         a == make_args(heap)
         u == make_oci_process_user(o.user)
         p1 == [ZeroProcess EXCEPT
                  !.args_len = args_len_of(argc, first_arg),
                  !.args = a.p,
                  !.cwd = o.cwd,
                  !.terminal = o.tty,
                  !.env = env_of(o).env,
                  !.env_len = env_of(o).env_len]
         c == make_capabilities(a.h, o)
     IN  IF u.kind = "fail"
           THEN /\ process' = Ptr(p1)
                /\ heap' = a.h
                /\ err' = u.error
                /\ pc' = "exit"
           ELSE /\ process' = Ptr([p1 EXCEPT
                       !.user = IF u.kind = "null" THEN NULL
                                ELSE Ptr([uid |-> u.uid, gid |-> u.gid]),
                       !.capabilities = IF o.cap_size > 0 THEN Ptr(c.caps) ELSE NULL,
                       !.no_new_privileges = TRUE])
                /\ heap' = IF o.cap_size > 0 THEN c.h ELSE a.h
                /\ err' = err
                /\ pc' = "exec_inline"
  /\ UNCHANGED <<argv, listen_fds, state_next, exec_options, first_arg,
                 crun_context, calls, ret>>

\* Lines 265-267.  free_oci_container_process belongs to the OCI bindings
\* library; the blocks it releases are not tracked here.
ExecInline ==
  /\ pc = "exec_inline"
  /\ calls' = Append(calls, [fn |-> "libcrun_container_exec",
                             context |-> crun_context,
                             id |-> Argv(first_arg),
                             file |-> NULL,
                             process |-> process])
  /\ \E r \in EngineRets : ret' = r
  /\ pc' = "returned"
  /\ UNCHANGED <<argv, listen_fds, state_next, exec_options, heap, first_arg,
                 crun_context, process, err>>

----------------------------------------------------------------------------
(* Initial states *)

\* `static struct exec_options_s exec_options`: zero-initialised.
ZeroOptions ==
  [tty |-> FALSE, detach |-> FALSE, preserve_fds |-> 0, process |-> NULL,
   console_socket |-> NULL, pid_file |-> NULL, cwd |-> 0, user |-> NULL,
   env |-> 0, cap |-> 0, cap_size |-> 0, env_size |-> 0]

\* `libcrun_context_t crun_context = {0, }` and line 206.
ZeroContext ==
  [id |-> NULL, detach |-> FALSE, console_socket |-> NULL, pid_file |-> NULL,
   preserve_fds |-> 0]

Exec == <<"exec">>
Ctr == <<"c", "t", "r">>
Sh == <<"s", "h">>
Two == <<"2">>
OptProcess == <<"--process=", "f">>
OptPreserveFds == <<"--preserve-fds">>
OptUser(s) == <<"--user=">> \o s
OptEnv(s) == <<"--env=">> \o s
OptCap(s) == <<"--cap=">> \o s

\* The invocations `exec` followed by at most n elements of Tokens.
Invocations(Tokens, n) == { <<Exec>> \o s : s \in SeqsUpTo(Tokens, n) }

InitWith(Argvs, Listens) ==
  /\ argv \in Argvs
  /\ listen_fds \in Listens
  /\ state_next = 1
  /\ exec_options = ZeroOptions
  /\ heap = <<>>
  /\ first_arg = 0
  /\ crun_context = ZeroContext
  /\ process = NULL
  /\ calls = <<>>
  /\ ret = 0
  /\ err = ""
  /\ pc = "argp_parse"

MainTokens ==
  {OptProcess, OptPreserveFds, OptUser(<<"a">>), OptUser(<<"3", ":", "9">>),
   OptCap(<<"K", "1">>), Ctr, Two}
MainListens ==
  {NULL, Ptr(<<"3">>), Ptr(<<"3", "a">>), Ptr(<<"a">>), Ptr(<<"-", "3">>)}

Init == InitWith(Invocations(MainTokens, MaxArgs), MainListens)

EnvTokens == {OptEnv(<<"A", "=", "1">>), OptEnv(<<"B", "=", "2">>), OptProcess, Ctr, Sh}
InitEnv == InitWith(Invocations(EnvTokens, MaxEnvArgs), {NULL})

CapTokens == {OptCap(<<"K", "1">>), OptCap(<<"K", "2">>), OptProcess, Ctr, Sh}
InitCap == InitWith(Invocations(CapTokens, MaxCapArgs), {NULL})

\* `exec --user=S ctr sh` for every string S of the bound, and the short
\* invocations without --user.
UserAlphabet == {"3", "9", ":", "a", "-"}
UserStrings == SeqsUpTo(UserAlphabet, MaxUserLen)
InitUser ==
  InitWith({<<Exec, OptUser(s), Ctr, Sh>> : s \in UserStrings}
             \cup Invocations({OptProcess, Ctr, Sh}, MaxUserArgs),
           {NULL})

\* Every option of the table, in short invocations.
OptionTokens ==
  {<<"--console-socket=", "s">>, <<"--pid-file=", "p">>, <<"--cwd=", "/">>,
   <<"--detach">>, <<"--tty">>, <<"--tty=", "n", "o">>, <<"--tty=", "f", "a", "l", "s", "e">>,
   <<"--tty=", "y">>, OptProcess, OptPreserveFds, OptUser(<<"3">>),
   OptEnv(<<"A", "=", "1">>), OptCap(<<"K", "1">>), Ctr, Sh}
InitOptions == InitWith(Invocations(OptionTokens, MaxOptionArgs), {NULL, Ptr(<<"3">>)})

Next ==
  \/ ArgpOption
  \/ ArgpArg
  \/ ArgpNoArgs
  \/ AssertNArgs
  \/ InitContext
  \/ SetContext
  \/ ExecProcessFile
  \/ BuildProcess
  \/ ExecInline

Spec == Init /\ [][Next]_vars
SpecEnv == InitEnv /\ [][Next]_vars
SpecCap == InitCap /\ [][Next]_vars
SpecUser == InitUser /\ [][Next]_vars
SpecOptions == InitOptions /\ [][Next]_vars

----------------------------------------------------------------------------
(* What an invocation was given, read off argv alone *)

\* The option elements argp hands to parse_opt from argv element i on (the
\* element after --preserve-fds is its value, not an option).
RECURSIVE OptionsFrom(_)
OptionsFrom(i) ==
  IF i > Len(argv) \/ ~IsOption(argv[i]) THEN <<>>
  ELSE <<argv[i]>> \o OptionsFrom(IF argv[i] = OptPreserveFds THEN i + 2 ELSE i + 1)

\* The values given to --preserve-fds, in order.
RECURSIVE FdsValuesFrom(_)
FdsValuesFrom(i) ==
  IF i > Len(argv) \/ ~IsOption(argv[i]) THEN <<>>
  ELSE IF argv[i] = OptPreserveFds
         THEN (IF i + 1 <= Len(argv) THEN <<argv[i + 1]>> ELSE <<>>) \o FdsValuesFrom(i + 2)
  ELSE FdsValuesFrom(i + 1)

\* Index of the first positional argument (past the end when there is none).
RECURSIVE FirstWord(_)
FirstWord(i) ==
  IF i > Len(argv) \/ ~IsOption(argv[i]) THEN i
  ELSE FirstWord(IF argv[i] = OptPreserveFds THEN i + 2 ELSE i + 1)

Positionals == SubSeq(argv, FirstWord(2), Len(argv))
NPositional == Len(Positionals)
\* --preserve-fds is the last element: there is no value for it to read.
FdsValueMissing == FirstWord(2) > Len(argv) + 1

IsNamed(name, text) == Len(text) >= 1 /\ text[1] = name
\* The values of the options written --name=value, in order.
Given(name) ==
  LET os == SelectSeq(OptionsFrom(2), LAMBDA x : IsNamed(name, x))
  IN  [i \in 1..Len(os) |-> Tail(os[i])]
Last(s) == s[Len(s)]

FileModeGiven == Given("--process=") # <<>>
EnvGiven == Given("--env=")
CapGiven == Given("--cap=")
UserGiven == Given("--user=")

Returned == pc = "returned"
Exited == pc = "exit"
Done == Returned \/ Exited

\* A decimal numeral, and one with an optional sign.
IsNumeral(s) == Len(s) >= 1 /\ \A i \in 1..Len(s) : s[i] \in Digits
IsInteger(s) ==
  \/ IsNumeral(s)
  \/ Len(s) >= 2 /\ s[1] \in {"+", "-"} /\ IsNumeral(Tail(s))
RECURSIVE NumeralValue(_)
NumeralValue(s) ==
  IF s = <<>> THEN 0 ELSE 10 * NumeralValue(SubSeq(s, 1, Len(s) - 1)) + DigitVal(s[Len(s)])
IntegerValue(s) ==
  IF s[1] = "-" THEN - NumeralValue(Tail(s))
  ELSE IF s[1] = "+" THEN NumeralValue(Tail(s))
  ELSE NumeralValue(s)

IsFileCall(c) == c.fn = "libcrun_container_exec_process_file"
IsInlineCall(c) == c.fn = "libcrun_container_exec"

----------------------------------------------------------------------------
(* C1 *)

\* C1, as amended: in file mode (a --process file was given) an invocation
\* whose option parsing completes never ends with ArgumentCountError.  With no
\* positional argument it ends with MissingContainerId and the file-based
\* entry point is not called; with one or more it raises no error and, unless
\* the context initialisation fails, calls the file-based entry point exactly
\* once with (first positional, file path), the later positionals ignored.
C1_FileModeNeedsOneOrMore ==
  (Done /\ FileModeGiven /\ ~FdsValueMissing) =>
    /\ err # "ArgumentCountError"
    /\ NPositional = 0 => (Exited /\ err = "MissingContainerId" /\ calls = <<>>)
    /\ NPositional >= 1 =>
         /\ Returned /\ err = ""
         /\ Len(calls) <= 1
         /\ calls = <<>> => ret < 0
         /\ calls # <<>> =>
              /\ IsFileCall(calls[1])
              /\ calls[1].id = Ptr(Positionals[1])
              /\ calls[1].file = Ptr(Last(Given("--process=")))

\* File mode, two positionals, and the entry point was called.
C1_Witness ==
  /\ Returned /\ FileModeGiven /\ NPositional = 2
  /\ Len(calls) = 1 /\ IsFileCall(calls[1]) /\ calls[1].id = Ptr(Positionals[1])

\* C1 as stated: file mode with zero or with two or more positionals ends
\* with ArgumentCountError and no call; with exactly one the entry point gets
\* (containerId, filePath).
C1_Original ==
  (Done /\ FileModeGiven /\ ~FdsValueMissing) =>
    /\ NPositional # 1 => (Exited /\ err = "ArgumentCountError" /\ calls = <<>>)
    /\ (NPositional = 1 /\ calls # <<>>) =>
         /\ IsFileCall(calls[1])
         /\ calls[1].id = Ptr(Positionals[1])
         /\ calls[1].file = Ptr(Last(Given("--process=")))

----------------------------------------------------------------------------
(* C2 *)

\* Nothing has been resolved yet: no ProcessSpec (so no user and no
\* capability set), an untouched ExecutionContext, no engine call.
NothingResolved == process = NULL /\ crun_context = ZeroContext /\ calls = <<>>

\* C2, as amended: in inline mode (no --process), once option parsing
\* completes, exactly one positional argument ends the invocation with
\* ArgumentCountError and none at all with MissingContainerId, in both cases
\* before any user-spec, capability or preserve-fd resolution; with two or
\* more positionals neither error is raised.
C2_InlineNeedsTwo ==
  /\ err \in {"ArgumentCountError", "MissingContainerId"} => NothingResolved
  /\ (Done /\ ~FileModeGiven /\ ~FdsValueMissing) =>
       /\ NPositional = 0 => (Exited /\ err = "MissingContainerId")
       /\ NPositional = 1 => (Exited /\ err = "ArgumentCountError")
       /\ NPositional >= 2 => err \notin {"ArgumentCountError", "MissingContainerId"}

\* Inline mode, one positional, with a user spec, a capability and LISTEN_FDS
\* all waiting to be resolved.
C2_Witness ==
  /\ Exited /\ ~FileModeGiven /\ NPositional = 1 /\ err = "ArgumentCountError"
  /\ UserGiven # <<>> /\ CapGiven # <<>> /\ listen_fds # NULL

\* C2 as stated: exactly one positional in inline mode yields
\* MissingContainerId before anything is resolved; two or more raise no
\* argument-count error.
C2_Original ==
  (Done /\ ~FileModeGiven /\ ~FdsValueMissing) =>
    /\ NPositional = 1 => (Exited /\ err = "MissingContainerId" /\ NothingResolved)
    /\ NPositional >= 2 => err # "ArgumentCountError"

----------------------------------------------------------------------------
(* C3 *)

\* C3: the exec engine is called at most once, never in an invocation that
\* ends with an error, and never in one whose --preserve-fds value is not a
\* number.
C3_NoPartialSuccess ==
  /\ Len(calls) <= 1
  /\ err # "" => calls = <<>>
  /\ (\E i \in 1..Len(FdsValuesFrom(2)) : ~IsNumeral(FdsValuesFrom(2)[i])) =>
       calls = <<>>

----------------------------------------------------------------------------
(* C7, C8, C10 *)

\* The explicit --preserve-fds value: 0 without the option, else the last one.
ExplicitFds ==
  IF FdsValuesFrom(2) = <<>> THEN 0 ELSE NumeralValue(Last(FdsValuesFrom(2)))
\* The LISTEN_FDS contribution: 0 when absent or not a well-formed integer.
ListenFdsValue ==
  IF listen_fds = NULL \/ ~IsInteger(Deref(listen_fds)) THEN 0
  ELSE IntegerValue(Deref(listen_fds))

\* C7: in every invocation that reaches the exec engine with numeric
\* --preserve-fds values, the context's preserve-fd count is the explicit
\* value (0 without the option) plus the LISTEN_FDS value, which counts as 0
\* when the variable is absent or not a well-formed integer ("abc", "3abc").
C7_ResolvedPreserveFds ==
  (calls # <<>> /\ \A i \in 1..Len(FdsValuesFrom(2)) : IsNumeral(FdsValuesFrom(2)[i])) =>
     calls[1].context.preserve_fds = ExplicitFds + ListenFdsValue

\* C8: in inline mode with positionals [containerId, t1, ..., tn] the
\* ProcessSpec handed to the engine has the argument vector [t1, ..., tn], in
\* order, and a recorded argument count of n.
C8_ArgumentVector ==
  (calls # <<>> /\ IsInlineCall(calls[1])) =>
     LET p == Deref(calls[1].process)
     IN  /\ Strings(heap, p.args, 0) = Tail(Positionals)
         /\ p.args_len = Len(Positionals) - 1

\* C10: the preserve-fd count handed to the exec engine is never negative.
C10_PreserveFdsNonNegative ==
  calls # <<>> => calls[1].context.preserve_fds >= 0

----------------------------------------------------------------------------
(* C9 *)

\* C9: the ProcessSpec's environment list is the sequence of the --env
\* arguments in call order, duplicates kept, nothing dropped or reordered,
\* and its recorded length is the number of --env options.
C9_EnvironmentOrder ==
  (calls # <<>> /\ IsInlineCall(calls[1])) =>
     LET p == Deref(calls[1].process)
     IN  /\ p.env_len = Len(EnvGiven)
         /\ Strings(heap, p.env, 0) = EnvGiven
         /\ EnvGiven = <<>> <=> p.env = 0

\* Three --env options, the first repeated after a different one.
C9_Witness ==
  /\ calls # <<>> /\ IsInlineCall(calls[1])
  /\ EnvGiven = << <<"A", "=", "1">>, <<"B", "=", "2">>, <<"A", "=", "1">> >>
  /\ Deref(calls[1].process).env_len = 3

----------------------------------------------------------------------------
(* C6 *)

\* The blocks a char** list of len strings occupies: the array and its strings.
Storage(arr, len) ==
  IF arr = 0 THEN {} ELSE {arr} \cup {heap[arr].ptrs[i].addr : i \in 1..len}

Disjoint(A, B) == A \cap B = {}

\* The five lists of a capability set, as <<block, length>> pairs.
FiveLists(c) ==
  << <<c.effective, c.effective_len>>, <<c.inheritable, c.inheritable_len>>,
     <<c.bounding, c.bounding_len>>, <<c.ambient, c.ambient_len>>,
     <<c.permitted, c.permitted_len>> >>

\* Every one of the five lists holds the --cap names in call order.
FiveListsEqualInput(c) ==
  \A k \in 1..5 :
     /\ FiveLists(c)[k][2] = Len(CapGiven)
     /\ Strings(heap, FiveLists(c)[k][1], 0) = CapGiven

\* C6, as amended: with --cap options given, the ProcessSpec carries a
\* CapabilitySet whose five lists each equal the --cap sequence in content and
\* order and share no storage with one another; inheritable, bounding,
\* ambient and permitted are deep copies that share nothing with the options
\* record's list either, while effective is the options record's list itself
\* (the same storage, handed over, not copied).  Without --cap no
\* CapabilitySet is attached.
C6_CapabilityFanOut ==
  (calls # <<>> /\ IsInlineCall(calls[1])) =>
     LET p == Deref(calls[1].process)
     IN  /\ CapGiven = <<>> <=> p.capabilities = NULL
         /\ CapGiven # <<>> =>
              LET c == Deref(p.capabilities)
                  l == FiveLists(c)
              IN  /\ FiveListsEqualInput(c)
                  /\ \A j, k \in 1..5 :
                        j # k => Disjoint(Storage(l[j][1], l[j][2]), Storage(l[k][1], l[k][2]))
                  /\ \A k \in 2..5 :
                        Disjoint(Storage(l[k][1], l[k][2]),
                                 Storage(exec_options.cap, exec_options.cap_size))
                  /\ c.effective = exec_options.cap

\* Two different capabilities, fanned out.
C6_Witness ==
  /\ calls # <<>> /\ IsInlineCall(calls[1])
  /\ CapGiven = << <<"K", "2">>, <<"K", "1">> >>
  /\ Deref(calls[1].process).capabilities # NULL

\* C6 as stated: each of the five lists is an independent deep copy: no two
\* of them, and none of them and the options record's list, share storage.
C6_Original ==
  (calls # <<>> /\ IsInlineCall(calls[1])) =>
     LET p == Deref(calls[1].process)
     IN  /\ CapGiven = <<>> <=> p.capabilities = NULL
         /\ CapGiven # <<>> =>
              LET c == Deref(p.capabilities)
                  l == FiveLists(c)
              IN  /\ FiveListsEqualInput(c)
                  /\ \A j, k \in 1..5 :
                        j # k => Disjoint(Storage(l[j][1], l[j][2]), Storage(l[k][1], l[k][2]))
                  /\ \A k \in 1..5 :
                        Disjoint(Storage(l[k][1], l[k][2]),
                                 Storage(exec_options.cap, exec_options.cap_size))

----------------------------------------------------------------------------
(* C4, C5 *)

\* The user spec given (the last --user wins), split at its first ':'.
UserSpecGiven == Last(UserGiven)
HasColon(s) == \E i \in 1..Len(s) : s[i] = ":"
FirstColon(s) == CHOOSE i \in 1..Len(s) : s[i] = ":" /\ \A j \in 1..(i - 1) : s[j] # ":"
UidPart(s) == IF HasColon(s) THEN SubSeq(s, 1, FirstColon(s) - 1) ELSE s
GidPart(s) == SubSeq(s, FirstColon(s) + 1, Len(s))

\* BuildProcess has run on a --user value.
UserParsed == process # NULL /\ UserGiven # <<>>
UserErrors == {"InvalidUid", "InvalidGid", "InvalidUserspec"}
OutOfLong(s) ==
  IsInteger(s) /\ (IntegerValue(s) > LONG_MAX \/ IntegerValue(s) < LONG_MIN)

\* C4: an out-of-range UID yields InvalidUid, an out-of-range GID InvalidGid,
\* and every user spec with a non-numeric UID or GID component, an empty one
\* included ("", "1000:", ":5"), yields an error and no ProcessUser.
C4_UserSpecErrors ==
  UserParsed =>
    LET s == UserSpecGiven
    IN  /\ OutOfLong(UidPart(s)) => err = "InvalidUid"
        /\ (IsInteger(UidPart(s)) /\ ~OutOfLong(UidPart(s)) /\ HasColon(s)
              /\ OutOfLong(GidPart(s))) => err = "InvalidGid"
        /\ (~IsInteger(UidPart(s)) \/ (HasColon(s) /\ ~IsInteger(GidPart(s)))) =>
              /\ err \in UserErrors
              /\ Deref(process).user = NULL

\* A uid or gid written as a plain decimal numeral within the type's range.
IsValidId(s) == IsNumeral(s) /\ NumeralValue(s) <= UID_MAX

DigitChar(d) ==
  CASE d = 0 -> "0" [] d = 1 -> "1" [] d = 2 -> "2" [] d = 3 -> "3" [] d = 4 -> "4"
    [] d = 5 -> "5" [] d = 6 -> "6" [] d = 7 -> "7" [] d = 8 -> "8" [] d = 9 -> "9"
RECURSIVE Decimal(_)
Decimal(n) == IF n < 10 THEN <<DigitChar(n)>> ELSE Decimal(n \div 10) \o <<DigitChar(n % 10)>>
\* A ProcessUser written back as uid:gid.
Serialise(u) == Decimal(u.uid) \o <<":">> \o Decimal(u.gid)

\* C5: without --user the ProcessSpec has no user (NULL, not uid 0); a valid
\* "UID" gives ProcessUser{uid = UID, gid = 0}; a valid "UID:GID" gives
\* exactly that pair, and writing the pair back as uid:gid and parsing it
\* again gives the same pair.  A valid spec is never refused.
C5_UserSpecResults ==
  /\ (process # NULL /\ UserGiven # <<>>
        /\ IsValidId(UidPart(UserSpecGiven))
        /\ (HasColon(UserSpecGiven) => IsValidId(GidPart(UserSpecGiven))))
       => err = ""
  /\ (calls # <<>> /\ IsInlineCall(calls[1])) =>
       LET u == Deref(calls[1].process).user
       IN  /\ UserGiven = <<>> => u = NULL
           /\ (UserGiven # <<>> /\ IsValidId(UserSpecGiven)) =>
                u = Ptr([uid |-> NumeralValue(UserSpecGiven), gid |-> 0])
           /\ (UserGiven # <<>> /\ HasColon(UserSpecGiven)
                 /\ IsValidId(UidPart(UserSpecGiven)) /\ IsValidId(GidPart(UserSpecGiven))) =>
                /\ u = Ptr([uid |-> NumeralValue(UidPart(UserSpecGiven)),
                            gid |-> NumeralValue(GidPart(UserSpecGiven))])
                /\ make_oci_process_user(Ptr(Serialise(Deref(u))))
                     = UserOk(Deref(u).uid, Deref(u).gid)

\* "39:9" reached the engine as uid 39, gid 9.
C5_Witness ==
  /\ calls # <<>> /\ IsInlineCall(calls[1])
  /\ UserGiven = << <<"3", "9", ":", "9">> >>
  /\ Deref(calls[1].process).user = Ptr([uid |-> 39, gid |-> 9])

====
